---- MODULE Spec2Model ----
(***************************************************************************)
(* Patrimo dashboard: the client-side portfolio derivations.               *)
(*                                                                         *)
(*   usePortfolio      (frontend/src/hooks/usePortfolio)  the hook that    *)
(*                     keeps a performance-sorted copy of the assets of    *)
(*                     the last response and passes the totals through.    *)
(*   PerformanceCard   allocation buckets (map, group, sort, colour).      *)
(*   PerformanceGrid   category filter and ranking of the assets.          *)
(*   WealthSummary     the selected period, handed to PerformanceCard.     *)
(*                                                                         *)
(* Every component that calls usePortfolio owns one instance of the hook   *)
(* state (React keeps hook state per component instance), so the state is  *)
(* indexed by the component: "card" is PerformanceCard, "grid" is          *)
(* PerformanceGrid.                                                        *)
(*                                                                         *)
(* Numbers.  Asset values and totalValue are whole currency units.         *)
(* asset.performance is a whole percentage.  performanceValue and          *)
(* totalPerformance are carried in hundredths (x100), so that -1.25 is     *)
(* -125.  A toFixed(1) string is carried as its number of tenths.          *)
(***************************************************************************)
EXTENDS Integers, Sequences, FiniteSets, TLC

\* Longest asset list a response carries (apart from WideList).
MaxAssets == 3

\* The palette size the allocation colours are said to cycle through.
PaletteSize == 8

Hooks == {"card", "grid"}

VARIABLES
    api,              \* api[h]: what useApi returns to hook h: data, loading, error
    sortedAssets,     \* sortedAssets[h]: the useState of usePortfolio
    effectPending,    \* effectPending[h]: the useEffect on [portfolioData] is due
    selectedCategory, \* PerformanceGrid state
    selectedSort,     \* PerformanceGrid state
    selectedPeriod    \* WealthSummary state, the selectedPeriod prop of the card

vars ==
    <<api, sortedAssets, effectPending, selectedCategory, selectedSort,
      selectedPeriod>>

----------------------------------------------------------------------------
\* Inputs: the assets a response may carry.

Asset(i, n, c, v, p) ==
    [id |-> i, name |-> n, category |-> c, value |-> v, performance |-> p]

Pool ==
    { Asset(1, "Beta",  "stocks",  100, 10),
      Asset(2, "alpha", "crypto",  300, -5),
      Asset(3, "Gamma", "crypto",  100, 10),
      Asset(4, "beta",  "savings", 0,   0) }

RECURSIVE ListsUpTo(_)
ListsUpTo(n) ==
    IF n = 0 THEN { <<>> }
    ELSE LET prev == ListsUpTo(n - 1)
         IN  prev \cup { Append(s, a) : s \in prev, a \in Pool }

AssetLists == { s \in ListsUpTo(MaxAssets) :
                  \A i, j \in 1..Len(s) : i # j => s[i].id # s[j].id }

\* One list with more categories than the palette has colours.
WideCategories ==
    << "stocks", "crypto", "real-estate", "savings", "other",
       "bonds", "cash", "gold", "art" >>

WideList ==
    [ i \in 1..Len(WideCategories) |->
        Asset(10 + i, "alpha", WideCategories[i], 100 * i, i) ]

RECURSIVE SumOver(_, _)
\* Sum of field f over a sequence of records.
SumOver(s, f) ==
    IF s = <<>> THEN 0 ELSE SumOver(SubSeq(s, 1, Len(s) - 1), f) + s[Len(s)][f]

RECURSIVE SumWeighted(_)
\* Sum of value * performance (the performance value in hundredths).
SumWeighted(s) ==
    IF s = <<>> THEN 0
    ELSE SumWeighted(SubSeq(s, 1, Len(s) - 1))
         + s[Len(s)].value * s[Len(s)].performance

\* The JSON null, and a response body.
NullData ==
    [ isNull |-> TRUE, hasAssets |-> FALSE, assets |-> <<>>,
      totalValue |-> 0, totalPerformance |-> 0, performanceValue |-> 0 ]

Response(has, list, tv, tp, pv) ==
    [ isNull |-> FALSE, hasAssets |-> has, assets |-> list,
      totalValue |-> tv, totalPerformance |-> tp, performanceValue |-> pv ]

\* A response whose totals agree with its assets.
Consistent(list) ==
    LET tv == SumOver(list, "value")
        pv == SumWeighted(list)
    IN  Response(TRUE, list, tv, IF tv > 0 THEN (pv * 100) \div tv ELSE 0, pv)

\* A response whose totals were computed from other holdings than its assets.
Detached(list) == Response(TRUE, list, 400, -125, -500)

Responses(h) ==
    IF h = "card"
    THEN { NullData, Response(FALSE, <<>>, 400, -125, -500), Consistent(WideList) }
         \cup { Consistent(l) : l \in AssetLists }
         \cup { Detached(l) : l \in AssetLists }
    ELSE { NullData, Response(FALSE, <<>>, 400, -125, -500) }
         \cup { Consistent(l) : l \in AssetLists }

----------------------------------------------------------------------------
\* Array.prototype.sort: a stable sort under the comparator of the call.

\* The comparator of the hook with its operands exchanged.
ComparePerformanceAscending(a, b) == a.performance - b.performance

ComparePerformance(a, b) == b.performance - a.performance

CompareBucket(a, b) == b.value - a.value

\* Collation rank of a name under localeCompare: letters first, then case,
\* lower case before upper case.
CollationRank(name) ==
    CASE name = "alpha" -> 1
      [] name = "beta"  -> 2
      [] name = "Beta"  -> 3
      [] name = "Gamma" -> 4

LocaleCompare(x, y) ==
    IF CollationRank(x) < CollationRank(y) THEN -1
    ELSE IF CollationRank(x) > CollationRank(y) THEN 1 ELSE 0

\* The comparator with the value case written in the order of the name case.
GridCompareValueAscending(sort, a, b) ==
    CASE sort = "performance" -> b.performance - a.performance
      [] sort = "value"       -> a.value - b.value
      [] sort = "name"        -> LocaleCompare(a.name, b.name)
      [] OTHER                -> 0

\* The comparator written with a test in place of a difference: it never
\* answers 0.
GridCompareNoZero(sort, a, b) ==
    CASE sort = "performance" -> IF b.performance >= a.performance THEN 1 ELSE -1
      [] sort = "value"       -> IF b.value >= a.value THEN 1 ELSE -1
      [] sort = "name"        -> LocaleCompare(a.name, b.name)
      [] OTHER                -> 0

GridCompare(sort, a, b) ==
    CASE sort = "performance" -> b.performance - a.performance
      [] sort = "value"       -> b.value - a.value
      [] sort = "name"        -> LocaleCompare(a.name, b.name)
      [] OTHER                -> 0

Compare(kind, a, b) ==
    CASE kind = "hook"   -> ComparePerformance(a, b)
      [] kind = "bucket" -> CompareBucket(a, b)
      [] OTHER           -> GridCompare(kind, a, b)

RECURSIVE Insert(_, _, _)
Insert(kind, acc, x) ==
    IF acc = <<>> THEN << x >>
    ELSE LET y == acc[Len(acc)]
         IN  IF Compare(kind, y, x) > 0
             THEN Append(Insert(kind, SubSeq(acc, 1, Len(acc) - 1), x), y)
             ELSE Append(acc, x)

RECURSIVE ArraySort(_, _)
ArraySort(kind, s) ==
    IF s = <<>> THEN <<>>
    ELSE Insert(kind, ArraySort(kind, SubSeq(s, 1, Len(s) - 1)), s[Len(s)])

----------------------------------------------------------------------------
\* Arrays and objects by reference.  A heap H has the objects (H.obj, an
\* object is named by its index), the arrays (H.arr, an array is the
\* sequence of the indices of its elements) and the bindings of the names of
\* the code to arrays (H.ref).

NewHeap(var, records) ==
    [ ref |-> (var :> var),
      arr |-> (var :> [i \in 1..Len(records) |-> i]),
      obj |-> records ]

\* A new array, bound to var.
Alloc(H, var, ids) ==
    [ ref |-> (var :> var) @@ H.ref,
      arr |-> (var :> ids) @@ H.arr,
      obj |-> H.obj ]

Ids(H, var) == H.arr[H.ref[var]]

\* The records an array holds now.
Deref(H, var) == [ i \in 1..Len(Ids(H, var)) |-> H.obj[Ids(H, var)[i]] ]

\* The records of an array, each with the index of its object.
Tagged(H, var) ==
    [ i \in 1..Len(Ids(H, var)) |->
        [ref |-> Ids(H, var)[i]] @@ H.obj[Ids(H, var)[i]] ]

Refs(tagged) == [ i \in 1..Len(tagged) |-> tagged[i].ref ]

\* dst = src: a second name of the same array.
SpreadAlias(H, src, dst) == [H EXCEPT !.ref = (dst :> H.ref[src]) @@ H.ref]

\* dst = [...src]: a new array of the same objects.
Spread(H, src, dst) == Alloc(H, dst, Ids(H, src))

\* var.sort(compare): the array var names is reordered in place.
SortInPlace(H, var, kind) ==
    [H EXCEPT !.arr[H.ref[var]] = Refs(ArraySort(kind, Tagged(H, var)))]

\* dst = src.map(f): a new array of new objects, the records f made.
ArrayMap(H, dst, records) ==
    Alloc([H EXCEPT !.obj = H.obj \o records], dst,
          [ i \in 1..Len(records) |-> Len(H.obj) + i ])

----------------------------------------------------------------------------
\* usePortfolio

PortfolioData(h) == api[h].data

\* The error useApi returns when there is none (null).
NoError == "null"

\* portfolioData?.field || 0
OrZero(data, f) == IF data.isNull THEN 0 ELSE data[f]

\* What one call of the hook returns, from what useApi returned and the state.
usePortfolio(result, sorted) ==
    [ assets           |-> sorted,
      totalValue       |-> OrZero(result.data, "totalValue"),
      totalPerformance |-> OrZero(result.data, "totalPerformance"),
      performanceValue |-> OrZero(result.data, "performanceValue"),
      loading          |-> result.loading,
      error            |-> result.error ]

UsePortfolio(h) == usePortfolio(api[h], sortedAssets[h])

\* The state after the first render, whatever period the card is given.
Mounted ==
    /\ api = [h \in Hooks |-> [data |-> NullData, loading |-> TRUE, error |-> NoError]]
    /\ sortedAssets = [h \in Hooks |-> <<>>]
    /\ effectPending = [h \in Hooks |-> TRUE]
    /\ selectedCategory = "all"
    /\ selectedSort = "performance"

Init == Mounted /\ selectedPeriod = "ytd"

\* useApi hands a parsed response body to the hook; the component renders
\* with it.  React runs the effects of a render before the next render, so
\* no response is taken while the effect of the last one is due.
Deliver(h, responses) ==
    /\ ~effectPending[h]
    /\ \E r \in responses :
         /\ api' = [api EXCEPT ![h] =
                      [data |-> r, loading |-> FALSE, error |-> NoError]]
         /\ effectPending' =
              [effectPending EXCEPT ![h] = ~(api[h].data.isNull /\ r.isNull)]
    /\ UNCHANGED <<sortedAssets, selectedCategory, selectedSort, selectedPeriod>>

ApiSuccess(h) == Deliver(h, Responses(h))

\* The effect of usePortfolio, run after the render that saw new portfolioData.
\* const sorted = [...portfolioData.assets].sort(...): the heap after it.
EffectHeap(assets) ==
    SortInPlace(Spread(NewHeap("assets", assets), "assets", "sorted"),
                "sorted", "hook")

RunEffect(h) ==
    /\ effectPending[h]
    /\ effectPending' = [effectPending EXCEPT ![h] = FALSE]
    /\ IF ~PortfolioData(h).isNull /\ PortfolioData(h).hasAssets
       THEN LET H == EffectHeap(PortfolioData(h).assets)
            IN  /\ sortedAssets' = [sortedAssets EXCEPT ![h] = Deref(H, "sorted")]
                /\ api' = [api EXCEPT ![h].data.assets = Deref(H, "assets")]
       ELSE UNCHANGED <<api, sortedAssets>>
    /\ UNCHANGED <<selectedCategory, selectedSort, selectedPeriod>>

\* The error useApi returns after a failed fetch (a message).
FetchError == "fetch failed"

\* useApi reports a failure to the hook.  It may keep the data of the last
\* success or drop it.
ApiFailure(h) ==
    /\ ~effectPending[h]
    /\ \E d \in { api[h].data, NullData } :
         /\ api' = [api EXCEPT ![h] =
                      [data |-> d, loading |-> FALSE, error |-> FetchError]]
         /\ effectPending' = [effectPending EXCEPT ![h] = (d # api[h].data)]
    /\ UNCHANGED <<sortedAssets, selectedCategory, selectedSort, selectedPeriod>>

----------------------------------------------------------------------------
\* WealthSummary

timeOptions ==
    << [label |-> "1J",   value |-> "1d"],
       [label |-> "7J",   value |-> "7d"],
       [label |-> "1M",   value |-> "1m"],
       [label |-> "YTD",  value |-> "ytd"],
       [label |-> "TOUT", value |-> "all"] >>

\* usePortfolio(period = 'ytd')
DefaultPeriod == "ytd"

\* The period each caller passes to usePortfolio: WealthSummary its state,
\* PerformanceCard its selectedPeriod prop, PerformanceGrid nothing.
HookPeriod(caller) ==
    CASE caller = "summary" -> selectedPeriod
      [] caller = "card"    -> selectedPeriod
      [] caller = "grid"    -> DefaultPeriod

\* `/portfolio?period=${period}`
Endpoint(period) == << "/portfolio?period=", period >>

\* The button handler with the label of the option for its value.
ClickedPeriodLabel(option) == option.label

\* onClick={() => setSelectedPeriod(option.value)}
ClickedPeriod(option) == option.value

\* useApi starts over when its endpoint changes: it is loading again, and it
\* may keep or clear the error of the last fetch.
Refetch(result) ==
    { [result EXCEPT !.loading = TRUE],
      [result EXCEPT !.loading = TRUE, !.error = NoError] }

SetSelectedPeriod ==
    /\ \E i \in 1..Len(timeOptions) :
         LET period == ClickedPeriod(timeOptions[i])
         IN  /\ selectedPeriod' = period
             /\ IF Endpoint(period) = Endpoint(selectedPeriod)
                THEN UNCHANGED api
                ELSE \E result \in Refetch(api["card"]) :
                       api' = [api EXCEPT !["card"] = result]
    /\ UNCHANGED <<sortedAssets, effectPending, selectedCategory, selectedSort>>

----------------------------------------------------------------------------
\* PerformanceGrid

CATEGORY_OPTIONS == << "all", "stocks", "crypto", "real-estate", "savings" >>

SORT_OPTIONS == << "performance", "value", "name" >>

\* The filter without its 'all' case.
FilteredAssetsNoAll(assets, category) ==
    SelectSeq(assets, LAMBDA asset : asset.category = category)

\* The filter with the category test negated.
FilteredAssetsNegated(assets, category) ==
    SelectSeq(assets, LAMBDA asset : category = "all" \/ asset.category # category)

FilteredAssets(assets, category) ==
    SelectSeq(assets, LAMBDA asset : category = "all" \/ asset.category = category)

SortedAssets(filtered, sort) == ArraySort(sort, filtered)

GridSortedAssets ==
    SortedAssets(FilteredAssets(UsePortfolio("grid").assets, selectedCategory),
                 selectedSort)

\* filteredAssets = assets.filter(...); sortedAssets = [...filteredAssets]
\* .sort(...): the heap after a render of the grid.
ArrayFilter(H, src, dst, category) ==
    Alloc(H, dst, Refs(FilteredAssets(Tagged(H, src), category)))

GridHeap(assets, category, sort) ==
    SortInPlace(
      Spread(ArrayFilter(NewHeap("assets", assets), "assets", "filteredAssets",
                         category),
             "filteredAssets", "sortedAssets"),
      "sortedAssets", sort)

SetSelectedCategory ==
    /\ \E i \in 1..Len(CATEGORY_OPTIONS) : selectedCategory' = CATEGORY_OPTIONS[i]
    /\ UNCHANGED <<api, sortedAssets, effectPending, selectedSort, selectedPeriod>>

SetSelectedSort ==
    /\ \E i \in 1..Len(SORT_OPTIONS) : selectedSort' = SORT_OPTIONS[i]
    /\ UNCHANGED <<api, sortedAssets, effectPending, selectedCategory,
                   selectedPeriod>>

\* The values a change event of a select may carry: the handlers store
\* e.target.value as it comes.  "" is the value of the disabled option of
\* the sort select.
CategoryEventValues ==
    { CATEGORY_OPTIONS[i] : i \in 1..Len(CATEGORY_OPTIONS) } \cup { "other", "bonds" }

SortEventValues ==
    { SORT_OPTIONS[i] : i \in 1..Len(SORT_OPTIONS) } \cup { "", "symbol" }

\* onChange={(e) => setSelectedCategory(e.target.value)}
ChangeCategory ==
    /\ \E value \in CategoryEventValues : selectedCategory' = value
    /\ UNCHANGED <<api, sortedAssets, effectPending, selectedSort, selectedPeriod>>

\* onChange={(e) => setSelectedSort(e.target.value)}
ChangeSort ==
    /\ \E value \in SortEventValues : selectedSort' = value
    /\ UNCHANGED <<api, sortedAssets, effectPending, selectedCategory,
                   selectedPeriod>>

\* What a render of PerformanceGrid returns.
PerformanceGrid ==
    LET portfolio == UsePortfolio("grid")
    IN  IF portfolio.loading THEN [view |-> "skeleton", assets |-> <<>>]
        ELSE IF portfolio.error # NoError THEN [view |-> "error", assets |-> <<>>]
        ELSE [view |-> "grid", assets |-> GridSortedAssets]

----------------------------------------------------------------------------
\* PerformanceCard

colors ==
    << "bg-blue-500", "bg-green-500", "bg-yellow-500", "bg-purple-500",
       "bg-red-500", "bg-indigo-500", "bg-pink-500", "bg-orange-500" >>

\* colors[index % colors.length], index counted from 0.
getAllocationColor(index) == colors[(index % Len(colors)) + 1]

\* ((value / totalValue) * 100).toFixed(1).  A division by zero gives
\* Infinity, or NaN for 0 / 0, and toFixed prints those as they are.
ToFixed1(value, totalValue) ==
    IF totalValue = 0
    THEN [kind |-> IF value = 0 THEN "NaN" ELSE "Infinity", tenths |-> 0]
    ELSE [kind |-> "number",
          tenths |-> (2 * 1000 * value + totalValue) \div (2 * totalValue)]

\* category?.substring(0, 8); no asset of the model has a categoryShort.
ShortName(category) ==
    IF category = "real-estate" THEN "real-est" ELSE category

AllocationData(assets, totalValue) ==
    [ i \in 1..Len(assets) |->
        [ name       |-> assets[i].category,
          shortName  |-> ShortName(assets[i].category),
          value      |-> assets[i].value,
          percentage |-> ToFixed1(assets[i].value, totalValue) ] ]

\* acc.find(cat => cat.name === name): the first such index, 0 for none.
FindCategory(acc, name) ==
    IF \E i \in 1..Len(acc) : acc[i].name = name
    THEN CHOOSE i \in 1..Len(acc) :
           /\ acc[i].name = name
           /\ \A j \in 1..(i - 1) : acc[j].name # name
    ELSE 0

\* The reduce step with the sum written as an assignment.
GroupStepOverwrite(acc, item, totalValue) ==
    LET k == FindCategory(acc, item.name)
    IN  IF k > 0
        THEN [acc EXCEPT ![k] =
                [ @ EXCEPT !.value = item.value,
                           !.percentage = ToFixed1(item.value, totalValue) ]]
        ELSE Append(acc, item)

\* One step of the reduce.
GroupStep(acc, item, totalValue) ==
    LET k == FindCategory(acc, item.name)
    IN  IF k > 0
        THEN [acc EXCEPT ![k] =
                [ @ EXCEPT !.value = @ + item.value,
                           !.percentage = ToFixed1(acc[k].value + item.value,
                                                   totalValue) ]]
        ELSE Append(acc, item)

RECURSIVE GroupedAllocation(_, _)
GroupedAllocation(allocationData, totalValue) ==
    IF allocationData = <<>> THEN <<>>
    ELSE GroupStep(
           GroupedAllocation(SubSeq(allocationData, 1, Len(allocationData) - 1),
                             totalValue),
           allocationData[Len(allocationData)],
           totalValue)

\* The colours given before the sort, by position in the grouping.
SortedAllocationColorFirst(groupedAllocation) ==
    ArraySort("bucket",
      [ i \in 1..Len(groupedAllocation) |->
          [ name       |-> groupedAllocation[i].name,
            shortName  |-> groupedAllocation[i].shortName,
            value      |-> groupedAllocation[i].value,
            percentage |-> groupedAllocation[i].percentage,
            color      |-> getAllocationColor(i - 1) ] ])

SortedAllocation(groupedAllocation) ==
    LET sorted == ArraySort("bucket", groupedAllocation)
    IN  [ i \in 1..Len(sorted) |->
            [ name       |-> sorted[i].name,
              shortName  |-> sorted[i].shortName,
              value      |-> sorted[i].value,
              percentage |-> sorted[i].percentage,
              color      |-> getAllocationColor(i - 1) ] ]

\* The allocation PerformanceCard derives in a render from what the hook
\* returned.
Allocation(portfolio) ==
    SortedAllocation(
      GroupedAllocation(AllocationData(portfolio.assets, portfolio.totalValue),
                        portfolio.totalValue))

CardAllocation == Allocation(UsePortfolio("card"))

\* One step of the reduce on the heap: existingCategory.value += item.value
\* writes the object acc.find returned, acc.push({ ...item }) adds a new
\* object to the array.
GroupStepRef(H, itemId, totalValue) ==
    LET acc  == Deref(H, "groupedAllocation")
        item == H.obj[itemId]
        k    == FindCategory(acc, item.name)
        next == GroupStep(acc, item, totalValue)
    IN  IF k > 0
        THEN [H EXCEPT !.obj[Ids(H, "groupedAllocation")[k]] = next[k]]
        ELSE [H EXCEPT !.obj = Append(@, next[Len(next)]),
                       !.arr[H.ref["groupedAllocation"]] =
                          Append(@, Len(H.obj) + 1)]

RECURSIVE ReduceRef(_, _, _)
ReduceRef(H, itemIds, totalValue) ==
    IF itemIds = <<>> THEN Alloc(H, "groupedAllocation", <<>>)
    ELSE GroupStepRef(
           ReduceRef(H, SubSeq(itemIds, 1, Len(itemIds) - 1), totalValue),
           itemIds[Len(itemIds)],
           totalValue)

\* The heap after a render of the card.
AllocationHeap(portfolio) ==
    LET H0 == NewHeap("assets", portfolio.assets)
        H1 == ArrayMap(H0, "allocationData",
                       AllocationData(Deref(H0, "assets"), portfolio.totalValue))
        H2 == ReduceRef(H1, Ids(H1, "allocationData"), portfolio.totalValue)
        H3 == SortInPlace(H2, "groupedAllocation", "bucket")
    IN  ArrayMap(H3, "sortedAllocation",
                 SortedAllocation(Deref(H3, "groupedAllocation")))

----------------------------------------------------------------------------
\* Specifications

NextCard == ApiSuccess("card") \/ RunEffect("card")

NextGrid ==
    \/ ApiSuccess("grid")
    \/ RunEffect("grid")
    \/ SetSelectedCategory
    \/ SetSelectedSort

Next == NextCard \/ NextGrid

Spec == Init /\ [][Next]_vars

SpecCard == Init /\ [][NextCard]_vars

SpecGrid == Init /\ [][NextGrid]_vars

\* WealthSummary with its PerformanceCard: period clicks, responses and
\* failures.
NextSummary == NextCard \/ ApiFailure("card") \/ SetSelectedPeriod

SpecSummary == Init /\ [][NextSummary]_vars

\* PerformanceCard given any period: the prop is a string, and usePortfolio
\* takes any string.
PeriodArguments == { timeOptions[i].value : i \in 1..Len(timeOptions) } \cup { "5y" }

NextAnyPeriod == NextCard \/ ApiFailure("card")

InitAnyPeriod == Mounted /\ selectedPeriod \in PeriodArguments

SpecAnyPeriod == InitAnyPeriod /\ [][NextAnyPeriod]_vars

\* PerformanceGrid with change events of any value.
NextRank ==
    \/ ApiSuccess("grid")
    \/ ApiFailure("grid")
    \/ RunEffect("grid")
    \/ ChangeCategory
    \/ ChangeSort

SpecRank == Init /\ [][NextRank]_vars

\* PerformanceCard with responses that carry an asset of negative value.
NegativeLists ==
    { << Asset(5, "alpha", "crypto", -50, 10) >>,
      << Asset(1, "Beta", "stocks", 100, 10), Asset(5, "alpha", "crypto", -50, 10) >>,
      << Asset(2, "alpha", "crypto", 300, -5), Asset(5, "alpha", "crypto", -50, 10) >> }

NegativeResponses == { Consistent(l) : l \in NegativeLists }

NextNegative == NextCard \/ Deliver("card", NegativeResponses)

SpecNegative == Init /\ [][NextNegative]_vars

\* The page with both components, on a few responses.
PageLists ==
    { <<>>,
      << Asset(2, "alpha", "crypto", 300, -5), Asset(1, "Beta", "stocks", 100, 10),
         Asset(3, "Gamma", "crypto", 100, 10) >>,
      << Asset(4, "beta", "savings", 0, 0), Asset(2, "alpha", "crypto", 300, -5) >> }

PageResponses == { NullData } \cup { Consistent(l) : l \in PageLists }

NextPage ==
    \/ Deliver("card", PageResponses)
    \/ RunEffect("card")
    \/ Deliver("grid", PageResponses)
    \/ RunEffect("grid")
    \/ SetSelectedCategory
    \/ SetSelectedSort

SpecPage == Init /\ [][NextPage]_vars

----------------------------------------------------------------------------
\* Properties of PerformanceCard (checked under SpecCard)

CardPortfolio == UsePortfolio("card")

\* The current response carries an asset list.
CardHasList ==
    ~PortfolioData("card").isNull /\ PortfolioData("card").hasAssets

\* The current response carries an asset list and the totals of that list.
CardConsistent ==
    /\ CardHasList
    /\ PortfolioData("card") = Consistent(PortfolioData("card").assets)

Abs(x) == IF x < 0 THEN -x ELSE x

\* The assets of a list that belong to a category.
OfCategory(assets, c) == SelectSeq(assets, LAMBDA a : a.category = c)

\* C1: whenever the response carries an asset list and its own totals, the
\* values of the allocation buckets of the render add up to the totalValue
\* of the same view-model.
C1_BucketsSumToTotal ==
    CardConsistent => SumOver(CardAllocation, "value") = CardPortfolio.totalValue

\* C2: whenever the response carries an asset list and its own totals, the
\* performanceValue handed to the consumer is the sum of value * performance
\* / 100 over the assets handed to it, and totalPerformance is
\* performanceValue / totalValue * 100 when totalValue > 0 (in hundredths).
C2_WeightedPerformance ==
    CardConsistent =>
      /\ CardPortfolio.performanceValue = SumWeighted(CardPortfolio.assets)
      /\ CardPortfolio.totalValue > 0 =>
           CardPortfolio.totalPerformance * CardPortfolio.totalValue
             = CardPortfolio.performanceValue * 100

\* C3: the allocation has exactly one bucket for every category some asset
\* of the list has, its value is the sum of the values of the assets of that
\* category, and it has no bucket for any other category.
C3_OneBucketPerCategory ==
    LET assets  == CardPortfolio.assets
        buckets == CardAllocation
    IN  /\ \A i \in 1..Len(assets) :
             Cardinality({ k \in 1..Len(buckets) :
                             buckets[k].name = assets[i].category }) = 1
        /\ \A k \in 1..Len(buckets) :
             /\ \E i \in 1..Len(assets) : assets[i].category = buckets[k].name
             /\ buckets[k].value
                  = SumOver(OfCategory(assets, buckets[k].name), "value")

C3_Witness ==
    /\ Len(CardPortfolio.assets) = 3
    /\ Len(CardAllocation) = 2
    /\ \E k \in 1..2 :
         CardAllocation[k].name = "crypto" /\ CardAllocation[k].value = 400

\* The buckets are in descending order of value.
DescendingByValue(buckets) ==
    \A i, j \in 1..Len(buckets) : i < j => buckets[i].value >= buckets[j].value

\* The pairs of categories (first, second) whose buckets have equal values,
\* first being the one placed first.
TiedPairs(buckets) ==
    { << buckets[p[1]].name, buckets[p[2]].name >> :
        p \in { q \in (1..Len(buckets)) \X (1..Len(buckets)) :
                  q[1] < q[2] /\ buckets[q[1]].value = buckets[q[2]].value } }

\* C4: the buckets are in descending order of value, and two buckets of
\* equal value are ordered by their category names alone, whatever the order
\* of the assets: no step swaps two categories that are tied before and
\* after it.
C4_ValueThenCategoryOrder ==
    [][ LET next   == Allocation(usePortfolio(api'["card"], sortedAssets'["card"]))
            before == TiedPairs(CardAllocation)
            after  == TiedPairs(next)
        IN  /\ DescendingByValue(next)
            /\ \A p \in before : << p[2], p[1] >> \notin after ]_vars

\* C5: the colour of every bucket is the palette entry at (its rank in the
\* descending order of value, from 0) modulo 8; for stocks=100 and
\* crypto=300 crypto has entry 0 and stocks entry 1.
C5_ColorByRank ==
    LET buckets == CardAllocation
    IN  /\ DescendingByValue(buckets)
        /\ \A i \in 1..Len(buckets) :
             buckets[i].color = colors[((i - 1) % PaletteSize) + 1]
        /\ ( /\ Len(buckets) = 2
             /\ \E i, j \in 1..2 :
                  /\ buckets[i].name = "crypto" /\ buckets[i].value = 300
                  /\ buckets[j].name = "stocks" /\ buckets[j].value = 100 )
           => /\ buckets[1].name = "crypto" /\ buckets[1].color = colors[1]
              /\ buckets[2].name = "stocks" /\ buckets[2].color = colors[2]

\* More buckets than colours: the ninth bucket takes the first colour again.
C5_Witness ==
    /\ Len(CardAllocation) = PaletteSize + 1
    /\ CardAllocation[PaletteSize + 1].color = CardAllocation[1].color
    /\ CardAllocation[1].value > CardAllocation[2].value

\* C6: whenever the response carries an asset list and its own totals, with
\* totalValue > 0, the bucket percentages are numbers and add up to 100,
\* within half a tenth for every bucket (in tenths: 1000).
C6_PercentagesSumTo100 ==
    LET buckets == CardAllocation
        tenths  == [ i \in 1..Len(buckets) |-> buckets[i].percentage ]
    IN  (CardConsistent /\ CardPortfolio.totalValue > 0) =>
          /\ \A i \in 1..Len(buckets) : buckets[i].percentage.kind = "number"
          /\ 2 * Abs(SumOver(tenths, "tenths") - 1000) <= Len(buckets)

\* C7: when the response carries the empty asset list, with totalValue 0,
\* totalPerformance is 0, no percentage is Infinity or NaN, and there is no
\* allocation bucket.
C7_EmptyList ==
    ( /\ CardHasList
      /\ PortfolioData("card").assets = <<>>
      /\ PortfolioData("card").totalValue = 0 )
    => /\ CardPortfolio.totalPerformance = 0
       /\ \A i \in 1..Len(CardAllocation) :
            CardAllocation[i].percentage.kind = "number"
       /\ CardAllocation = <<>>

----------------------------------------------------------------------------
\* Properties of PerformanceGrid (checked under SpecGrid)

GridPortfolio == UsePortfolio("grid")

\* The list the ranking is applied to.
GridFiltered == FilteredAssets(GridPortfolio.assets, selectedCategory)

\* Where the asset with the id of a stands in s.
PositionOf(s, a) == CHOOSE i \in 1..Len(s) : s[i].id = a.id

\* r holds the assets of s, each once (the ids of s are distinct).
IsPermutation(r, s) ==
    /\ Len(r) = Len(s)
    /\ \A i \in 1..Len(s) : \E j \in 1..Len(r) : r[j] = s[i]

\* a may stand before b under the sort key.
InOrder(sort, a, b) ==
    CASE sort = "performance" -> a.performance >= b.performance
      [] sort = "value"       -> a.value >= b.value
      [] sort = "name"        -> CollationRank(a.name) <= CollationRank(b.name)

\* C8: for each of the sort keys performance, value and name, the ranking is
\* a permutation of the filtered list, in descending order of performance,
\* descending order of value, or ascending order of name.
C8_RankingOrder ==
    LET out == GridSortedAssets
    IN  /\ selectedSort \in {"performance", "value", "name"}
        /\ IsPermutation(out, GridFiltered)
        /\ \A i, j \in 1..Len(out) :
             i < j => InOrder(selectedSort, out[i], out[j])

C8_Witness ==
    /\ selectedSort = "name"
    /\ GridSortedAssets # GridFiltered
    /\ \E i, j \in 1..Len(GridSortedAssets) :
         /\ i < j
         /\ GridSortedAssets[i].name = "beta"
         /\ GridSortedAssets[j].name = "Beta"

\* The assets of s with equal keys stand in r in the order they have in s.
TiesKept(key, s, r) ==
    \A i, j \in 1..Len(s) :
      (i < j /\ s[i][key] = s[j][key])
      => PositionOf(r, s[i]) < PositionOf(r, s[j])

\* C9: in the sorts by performance and by value, two assets with equal keys
\* stand in the output in the order they have in the input list: in the
\* ranking of the grid, and in the sort of the hook once its effect has run.
C9_StableTies ==
    /\ selectedSort \in {"performance", "value"}
       => TiesKept(selectedSort, GridFiltered, GridSortedAssets)
    /\ ( /\ ~effectPending["grid"]
         /\ ~PortfolioData("grid").isNull
         /\ PortfolioData("grid").hasAssets )
       => TiesKept("performance", PortfolioData("grid").assets,
                   GridPortfolio.assets)

C9_Witness ==
    /\ selectedSort = "value"
    /\ Len(GridFiltered) = 3
    /\ GridSortedAssets # GridFiltered
    /\ \E i, j \in 1..3 : i < j /\ GridFiltered[i].value = GridFiltered[j].value

\* C10: ranking a list that is already ranked by the same key changes
\* nothing: the ranking of the ranking is the ranking, and the ranking by
\* performance of the unfiltered list of the hook, which the hook has sorted
\* by performance, is that list.
C10_Idempotent ==
    /\ SortedAssets(GridSortedAssets, selectedSort) = GridSortedAssets
    /\ (selectedSort = "performance" /\ selectedCategory = "all")
       => GridSortedAssets = GridPortfolio.assets

C10_Witness ==
    /\ selectedSort = "performance"
    /\ selectedCategory = "all"
    /\ ~effectPending["grid"]
    /\ Len(GridPortfolio.assets) = 3
    /\ GridPortfolio.assets # PortfolioData("grid").assets
    /\ \E i, j \in 1..3 :
         i < j /\ GridPortfolio.assets[i].performance
                    = GridPortfolio.assets[j].performance

----------------------------------------------------------------------------
\* Properties of the page (checked under SpecPage)

\* C11: no derivation step changes the asset list it is given or any record
\* of it: after the effect of usePortfolio the response holds the assets it
\* held, after a render of the grid and after a render of the card the
\* list the hook handed over holds the records it held, in the order it held
\* them.
C11_InputsLeftAlone ==
    /\ \A h \in Hooks :
         ~PortfolioData(h).isNull /\ PortfolioData(h).hasAssets =>
           Deref(EffectHeap(PortfolioData(h).assets), "assets")
             = PortfolioData(h).assets
    /\ LET H == GridHeap(GridPortfolio.assets, selectedCategory, selectedSort)
       IN  /\ Deref(H, "sortedAssets") = GridSortedAssets
           /\ Deref(H, "assets") = GridPortfolio.assets
    /\ LET H == AllocationHeap(CardPortfolio)
       IN  /\ Deref(H, "sortedAllocation") = CardAllocation
           /\ Deref(H, "assets") = CardPortfolio.assets

\* The response of the grid is not in performance order, the grid ranks a
\* category by name, and the card has merged two assets into one bucket.
C11_Witness ==
    /\ ~effectPending["grid"] /\ ~effectPending["card"]
    /\ Len(PortfolioData("grid").assets) = 3
    /\ sortedAssets["grid"] # PortfolioData("grid").assets
    /\ selectedSort = "name" /\ selectedCategory = "crypto"
    /\ Len(GridSortedAssets) = 2
    /\ Len(CardPortfolio.assets) = 3 /\ Len(CardAllocation) = 2

\* C12: the ranked output holds every asset of the list under the filter
\* 'all' and exactly the assets of the selected category otherwise, each
\* once, and its order is that of sorting the kept assets alone.
C12_FilterBeforeSort ==
    LET assets == GridPortfolio.assets
        out    == GridSortedAssets
        kept   == { i \in 1..Len(assets) :
                      selectedCategory = "all"
                        \/ assets[i].category = selectedCategory }
    IN  /\ selectedCategory = "all" => kept = 1..Len(assets)
        /\ Len(out) = Cardinality(kept)
        /\ \A i \in kept : \E k \in 1..Len(out) : out[k] = assets[i]
        /\ \A k \in 1..Len(out) : \E i \in kept : out[k] = assets[i]
        /\ out = ArraySort(selectedSort,
                           IF selectedCategory = "all" THEN assets
                           ELSE OfCategory(assets, selectedCategory))

\* Two of three assets are kept and the sort moves them.
C12_Witness ==
    /\ ~effectPending["grid"]
    /\ selectedCategory = "crypto" /\ selectedSort = "value"
    /\ Len(GridPortfolio.assets) = 3
    /\ Len(GridSortedAssets) = 2
    /\ GridSortedAssets # OfCategory(GridPortfolio.assets, "crypto")


----------------------------------------------------------------------------
\* The filter of the grid against the buckets of the card (checked under
\* SpecCard, on the list the card is handed)

\* C13: for every category an asset of the list has, the values of the
\* assets the category filter keeps add up to the value of the bucket of
\* that category.
C13_FilterSumIsBucketValue ==
    LET assets  == CardPortfolio.assets
        buckets == CardAllocation
    IN  \A i \in 1..Len(assets) :
          \E k \in 1..Len(buckets) :
            /\ buckets[k].name = assets[i].category
            /\ SumOver(FilteredAssets(assets, assets[i].category), "value")
                 = buckets[k].value

\* A category with two assets next to a category with one.
C13_Witness ==
    /\ ~effectPending["card"]
    /\ Len(CardPortfolio.assets) = 3
    /\ Len(FilteredAssets(CardPortfolio.assets, "crypto")) = 2
    /\ \E k \in 1..Len(CardAllocation) :
         CardAllocation[k].name = "crypto" /\ CardAllocation[k].value = 400

----------------------------------------------------------------------------
\* Properties of the period (checked under SpecSummary)

\* The closed set of period tokens.
PeriodSet == { "1d", "7d", "1m", "ytd", "all" }

\* C19: selectedPeriod starts as ytd and after any clicks it is one of 1d,
\* 7d, 1m, ytd, all, and so is the period WealthSummary and PerformanceCard
\* pass to usePortfolio.
C19_PeriodInClosedSet ==
    /\ selectedPeriod = "ytd"
    /\ [](/\ selectedPeriod \in PeriodSet
          /\ HookPeriod("summary") \in PeriodSet
          /\ HookPeriod("card") \in PeriodSet)

\* A period other than the first one, with its response shown.
C19_Witness ==
    /\ selectedPeriod = "all"
    /\ ~api["card"].loading /\ ~effectPending["card"]
    /\ Len(sortedAssets["card"]) = 3

\* C20: after any period clicks PerformanceGrid and PerformanceCard ask
\* useApi for the same endpoint, the one of the selected period.
C20_SamePeriodQueried ==
    /\ Endpoint(HookPeriod("grid")) = Endpoint(HookPeriod("card"))
    /\ HookPeriod("grid") = selectedPeriod

----------------------------------------------------------------------------
\* Properties of the values usePortfolio returns (checked under SpecSummary)

\* C18: in every render the assets usePortfolio returns come from the
\* response its totals come from: assets that are not empty are the sorted
\* assets of the current response.
C18_OneResponsePerRender ==
    CardPortfolio.assets # <<>> =>
      /\ CardHasList
      /\ CardPortfolio.assets = ArraySort("hook", PortfolioData("card").assets)

\* C17: whenever useApi reports an error, usePortfolio returns no asset
\* left over from an earlier response.  (The totals it returns then are
\* those of the data useApi keeps, which is not the hook's doing.)
C17_NothingLeftOnFailure ==
    CardPortfolio.error # NoError => CardPortfolio.assets = <<>>

----------------------------------------------------------------------------
\* Properties of a call with any period (checked under SpecAnyPeriod)

\* C14: a call with a period outside 1d, 7d, 1m, ytd, all fails: once the
\* request is over usePortfolio returns an error and neither assets nor
\* totals.
C14_InvalidPeriodFails ==
    (HookPeriod("card") \notin PeriodSet /\ ~CardPortfolio.loading) =>
      /\ CardPortfolio.error # NoError
      /\ CardPortfolio.assets = <<>>
      /\ CardPortfolio.totalValue = 0
      /\ CardPortfolio.totalPerformance = 0
      /\ CardPortfolio.performanceValue = 0

----------------------------------------------------------------------------
\* Properties of the ranking under any key (checked under SpecRank)

\* The closed category set, and the sort keys.
CategorySet == { "stocks", "crypto", "real-estate", "savings", "other" }

SortKeys == { "performance", "value", "name" }

\* C15: with a sort key outside performance, value, name, or a category
\* filter outside the closed set and 'all', the grid that has assets to rank
\* shows no ranked assets.
C15_UnknownKeyFails ==
    ( /\ selectedSort \notin SortKeys
         \/ selectedCategory \notin CategorySet \cup { "all" }
      /\ GridPortfolio.assets # <<>> ) =>
      PerformanceGrid.view # "grid"

----------------------------------------------------------------------------
\* Properties of the card on assets of negative value (checked under
\* SpecNegative)

\* C16: once the effect of a response with an asset of negative value has
\* run, usePortfolio returns an error, no asset and totals of zero, and the
\* card derives no bucket.
C16_NegativeValueRejected ==
    ( /\ ~effectPending["card"]
      /\ \E i \in 1..Len(PortfolioData("card").assets) :
           PortfolioData("card").assets[i].value < 0 ) =>
      /\ CardPortfolio.error # NoError
      /\ CardPortfolio.assets = <<>>
      /\ CardPortfolio.totalValue = 0
      /\ CardPortfolio.performanceValue = 0
      /\ CardAllocation = <<>>
====
